---- MODULE Spec2Model ----
(***************************************************************************)
(* Model of hangman_eval/hangman.py: the GameState engine, the             *)
(* hangman_guess tool, the game_initialiser solver and the game_scorer.    *)
(*                                                                         *)
(* A Python str is a sequence of characters; a character is a one-element  *)
(* TLA+ string naming it ("Idot" is U+0130, "cdot" the combining dot       *)
(* U+0307, "sp" the space, "us" the underscore).  A Python dict is a       *)
(* function whose DOMAIN is the set of keys present.                       *)
(***************************************************************************)
EXTENDS Integers, Sequences, FiniteSets, TLC

(* ---- bounds of the model ---- *)
MaxWordLen == 2
BelowZero == 1
MaxMaxGuesses == 2

(* ---- program constants ---- *)
DEFAULT_MAX_GUESSES == 10
DEFAULT_DIFFICULTY == 3
DEFAULT_LANGUAGE == "english"
CORRECT == "C"
INCORRECT == "I"

(* ---- characters ---- *)
WordChars == {"a", "T"}
Alphabetic == {"a", "g", "i", "t", "y", "z", "A", "G", "T", "Idot"}
(* ord(c) *)
CodePoints == ("1" :> 49) @@ ("A" :> 65) @@ ("G" :> 71) @@ ("T" :> 84)
              @@ ("a" :> 97) @@ ("g" :> 103) @@ ("i" :> 105) @@ ("t" :> 116)
              @@ ("y" :> 121) @@ ("z" :> 122) @@ ("Idot" :> 304) @@ ("cdot" :> 775)

(* str.lower() left out *)
lowerChar_Identity(c) == <<c>>

(* str.lower() of a single character: a str, not always of length 1 *)
lowerChar(c) ==
    CASE c = "A" -> <<"a">>
      [] c = "T" -> <<"t">>
      [] c = "G" -> <<"g">>
      [] c = "Idot" -> <<"i", "cdot">>
      [] OTHER -> <<c>>

RECURSIVE lower(_)
lower(s) == IF s = <<>> THEN <<>> ELSE lowerChar(Head(s)) \o lower(Tail(s))

(* str.isalpha(): non-empty and every character alphabetic *)
isalpha(s) == Len(s) > 0 /\ \A i \in 1..Len(s) : s[i] \in Alphabetic

(* x in list / x in str, for a single character x *)
In(c, s) == \E i \in 1..Len(s) : s[i] = c

(* dict.get(key, default) *)
Get(d, k, default) == IF k \in DOMAIN d THEN d[k] ELSE default

(* sorted(list(S)) for a set of characters S *)
RECURSIVE sorted(_)
sorted(S) ==
    IF S = {} THEN <<>>
    ELSE LET m == CHOOSE x \in S : \A y \in S : CodePoints[x] <= CodePoints[y]
         IN <<m>> \o sorted(S \ {m})

(* ---- inputs ---- *)
RECURSIVE StrsUpTo(_, _)
StrsUpTo(C, n) ==
    IF n = 0 THEN {<<>>}
    ELSE LET S == StrsUpTo(C, n - 1)
         IN S \cup {Append(s, c) : s \in S, c \in C}

Words == StrsUpTo(WordChars, MaxWordLen)

Letters == {<<"a">>, <<"t">>, <<"y">>, <<"z">>, <<"A">>, <<"Idot">>,
            <<"1">>, <<>>, <<"a", "t">>}

WordPart == {<<>>} \cup {"word" :> w : w \in Words}
GuessesPart == {<<>>} \cup {"max_guesses" :> n : n \in (0 - BelowZero)..MaxMaxGuesses}
LabelPart == {<<>>, ("language" :> "french") @@ ("difficulty" :> 1)}
FlagPart == {"allow_word_guesses" :> b : b \in BOOLEAN}

Metadatas == {w @@ g @@ l @@ f :
                w \in WordPart, g \in GuessesPart, l \in LabelPart, f \in FlagPart}

VARIABLES metadata, store, pc, lastOp, lastArg, lastRaised, lastReturn, pre

vars == <<metadata, store, pc, lastOp, lastArg, lastRaised, lastReturn, pre>>

(* ---- GameState ---- *)
start(word, max_guesses) ==
    [word |-> lower(word),
     guessed_letters |-> <<>>,
     remaining_guesses |-> max_guesses,
     game_over |-> FALSE,
     won |-> FALSE]

(* a display that reveals only the first occurrence of a guessed letter *)
current_state_FirstOnly(gs) ==
    [i \in 1..(2 * Len(gs.word) - 1) |->
        IF i % 2 = 0 THEN "sp"
        ELSE LET k == (i + 1) \div 2
                 letter == gs.word[k]
             IN IF In(letter, gs.guessed_letters)
                   /\ \A j \in 1..(k - 1) : gs.word[j] # letter
                THEN letter ELSE "us"]

current_state(gs) ==
    [i \in 1..(2 * Len(gs.word) - 1) |->
        IF i % 2 = 0 THEN "sp"
        ELSE LET letter == gs.word[(i + 1) \div 2]
             IN IF In(letter, gs.guessed_letters) THEN letter ELSE "us"]

(* the incorrect guesses in guess order instead of sorted *)
incorrect_guesses_GuessOrder(gs) ==
    SelectSeq(gs.guessed_letters, LAMBDA c : ~In(c, gs.word))

incorrect_guesses(gs) ==
    sorted({gs.guessed_letters[i] : i \in 1..Len(gs.guessed_letters)}
             \ {gs.word[i] : i \in 1..Len(gs.word)})

(* if self.game_over: return self *)
alreadyOver_NoCheck(gs) == FALSE

alreadyOver(gs) == gs.game_over

(* the negation of: len(letter) != 1 or not letter.isalpha() *)
validLetter_NoAlpha(letter) == Len(letter) = 1

validLetter(letter) == Len(letter) = 1 /\ isalpha(letter)

(* if letter in self.guessed_letters: return self *)
alreadyGuessed_NoCheck(gs, c) == FALSE

alreadyGuessed(gs, c) == In(c, gs.guessed_letters)

(* if letter not in self.word: self.remaining_guesses -= 1 *)
penalise_Always(gs, c) == [gs EXCEPT !.remaining_guesses = @ - 1]

penalise_InWord(gs, c) ==
    IF In(c, gs.word) THEN [gs EXCEPT !.remaining_guesses = @ - 1] ELSE gs

penalise(gs, c) ==
    IF ~In(c, gs.word) THEN [gs EXCEPT !.remaining_guesses = @ - 1] ELSE gs

(* all(letter in self.guessed_letters for letter in self.word) *)
AllGuessed(gs) == \A i \in 1..Len(gs.word) : In(gs.word[i], gs.guessed_letters)

(* check win condition *)
checkWin_NoGameOver(gs) == IF AllGuessed(gs) THEN [gs EXCEPT !.won = TRUE] ELSE gs

checkWin_Any(gs) ==
    IF \E i \in 1..Len(gs.word) : In(gs.word[i], gs.guessed_letters)
    THEN [gs EXCEPT !.game_over = TRUE, !.won = TRUE] ELSE gs

checkWin(gs) ==
    IF AllGuessed(gs) THEN [gs EXCEPT !.game_over = TRUE, !.won = TRUE] ELSE gs

(* check lose condition *)
checkLose_ClearsWon(gs) ==
    IF gs.remaining_guesses <= 0
    THEN [gs EXCEPT !.game_over = TRUE, !.won = FALSE] ELSE gs

checkLose_StrictlyBelow(gs) ==
    IF gs.remaining_guesses < 0 THEN [gs EXCEPT !.game_over = TRUE] ELSE gs

checkLose(gs) ==
    IF gs.remaining_guesses <= 0 THEN [gs EXCEPT !.game_over = TRUE] ELSE gs

(* a guess that charges a rejected letter before raising *)
guess_ChargesInvalid(gs, letter0) ==
    IF alreadyOver(gs) THEN [state |-> gs, raised |-> "none"]
    ELSE
    LET letter == lower(letter0) IN
    IF ~validLetter(letter)
    THEN [state |-> [gs EXCEPT !.remaining_guesses = @ - 1], raised |-> "ValueError"]
    ELSE IF alreadyGuessed(gs, letter[1])
    THEN [state |-> gs, raised |-> "none"]
    ELSE
    LET appended == [gs EXCEPT !.guessed_letters = Append(@, letter[1])]
    IN [state |-> checkLose(checkWin(penalise(appended, letter[1]))),
        raised |-> "none"]

(* GameState.guess: the instance after the call and the exception raised *)
guess(gs, letter0) ==
    IF alreadyOver(gs) THEN [state |-> gs, raised |-> "none"]
    ELSE
    LET letter == lower(letter0) IN
    IF ~validLetter(letter)
    THEN [state |-> gs, raised |-> "ValueError"]
    ELSE IF alreadyGuessed(gs, letter[1])
    THEN [state |-> gs, raised |-> "none"]
    ELSE
    LET appended == [gs EXCEPT !.guessed_letters = Append(@, letter[1])]
    IN [state |-> checkLose(checkWin(penalise(appended, letter[1]))),
        raised |-> "none"]

(* a tool that starts a game of its own when the store holds none *)
execute_Fabricates(st0, letter) ==
    LET st == IF "hangman:game_state" \in DOMAIN st0 THEN st0
              ELSE ("hangman:game_state" :> start(<<"a">>, DEFAULT_MAX_GUESSES)) @@ st0
        game_state == st["hangman:game_state"]
        md == Get(st, "hangman:metadata", <<>>)
        r == IF ~game_state.game_over THEN guess(game_state, letter)
             ELSE [state |-> game_state, raised |-> "none"]
        gs == r.state
    IN IF r.raised # "none"
       THEN [store |-> [st EXCEPT !["hangman:game_state"] = gs],
             raised |-> r.raised, ret |-> <<>>]
       ELSE [store |-> [st EXCEPT !["hangman:game_state"] = gs],
             raised |-> "none",
             ret |-> [current_state |-> current_state(gs),
                      remaining_guesses |-> gs.remaining_guesses,
                      incorrect_guesses |-> incorrect_guesses(gs),
                      game_over |-> gs.game_over,
                      won |-> gs.won,
                      language |-> Get(md, "language", DEFAULT_LANGUAGE)]]

(* ---- hangman_guess.execute ---- *)
execute(st, letter) ==
    IF "hangman:game_state" \notin DOMAIN st
    THEN [store |-> st, raised |-> "RuntimeError: No game in progress", ret |-> <<>>]
    ELSE
    LET game_state == st["hangman:game_state"]
        md == Get(st, "hangman:metadata", <<>>)
        r == IF ~game_state.game_over THEN guess(game_state, letter)
             ELSE [state |-> game_state, raised |-> "none"]
        gs == r.state
    IN IF r.raised # "none"
       THEN [store |-> [st EXCEPT !["hangman:game_state"] = gs],
             raised |-> r.raised, ret |-> <<>>]
       ELSE [store |-> [st EXCEPT !["hangman:game_state"] = gs],
             raised |-> "none",
             ret |-> [current_state |-> current_state(gs),
                      remaining_guesses |-> gs.remaining_guesses,
                      incorrect_guesses |-> incorrect_guesses(gs),
                      game_over |-> gs.game_over,
                      won |-> gs.won,
                      language |-> Get(md, "language", DEFAULT_LANGUAGE)]]

(* an initialiser without the check of word *)
solve_NoWordCheck(st, md) ==
    LET word == Get(md, "word", <<>>)
        max_guesses == Get(md, "max_guesses", DEFAULT_MAX_GUESSES)
        language == Get(md, "language", DEFAULT_LANGUAGE)
        difficulty == Get(md, "difficulty", DEFAULT_DIFFICULTY)
        allow_word_guesses == Get(md, "allow_word_guesses", FALSE)
        hangman_game == start(word, max_guesses)
    IN [store |-> ("hangman:game_state" :> hangman_game)
                  @@ ("hangman:metadata" :>
                        [language |-> language,
                         difficulty |-> difficulty,
                         allow_word_guesses |-> allow_word_guesses])
                  @@ st,
        raised |-> "none"]

(* ---- game_initialiser.solve ---- *)
solve(st, md) ==
    LET word == Get(md, "word", <<>>) IN
    IF word = <<>>
    THEN [store |-> st, raised |-> "RuntimeError: No word provided"]
    ELSE
    LET max_guesses == Get(md, "max_guesses", DEFAULT_MAX_GUESSES)
        language == Get(md, "language", DEFAULT_LANGUAGE)
        difficulty == Get(md, "difficulty", DEFAULT_DIFFICULTY)
        allow_word_guesses == Get(md, "allow_word_guesses", FALSE)
        hangman_game == start(word, max_guesses)
    IN [store |-> ("hangman:game_state" :> hangman_game)
                  @@ ("hangman:metadata" :>
                        [language |-> language,
                         difficulty |-> difficulty,
                         allow_word_guesses |-> allow_word_guesses])
                  @@ st,
        raised |-> "none"]

(* ---- game_scorer.score ---- *)
(* the Score of the early-guess branch *)
earlyScore_IgnoreCase(game_state, language, difficulty, guessed_word) ==
    [value |-> IF lower(guessed_word) = game_state.word THEN CORRECT ELSE INCORRECT,
     answer |-> guessed_word,
     explanation |->
       [text |-> "Early guess.",
        Word |-> game_state.word,
        Language |-> language,
        Difficulty |-> difficulty,
        GuessedWord |-> guessed_word,
        GuessedLetters |-> game_state.guessed_letters,
        FinalWordState |-> current_state(game_state),
        RemainingGuesses |-> game_state.remaining_guesses]]

earlyScore(game_state, language, difficulty, guessed_word) ==
    [value |-> IF guessed_word = game_state.word THEN CORRECT ELSE INCORRECT,
     answer |-> guessed_word,
     explanation |->
       [text |-> "Early guess.",
        Word |-> game_state.word,
        Language |-> language,
        Difficulty |-> difficulty,
        GuessedWord |-> guessed_word,
        GuessedLetters |-> game_state.guessed_letters,
        FinalWordState |-> current_state(game_state),
        RemainingGuesses |-> game_state.remaining_guesses]]

(* the Score of the branch for a game that is not over *)
incompleteScore_Correct(game_state) ==
    [value |-> CORRECT,
     answer |-> current_state(game_state),
     explanation |-> [text |-> "The game did not complete."]]

incompleteScore(game_state) ==
    [value |-> INCORRECT,
     answer |-> current_state(game_state),
     explanation |-> [text |-> "The game did not complete."]]

(* the Score of a game that is over *)
endedScore_IgnoresWon(game_state, language, difficulty) ==
    [value |-> IF game_state.game_over THEN CORRECT ELSE INCORRECT,
     answer |-> current_state(game_state),
     explanation |->
       [text |-> "Game ended.",
        Word |-> game_state.word,
        Language |-> language,
        Difficulty |-> difficulty,
        Won |-> game_state.won,
        GuessedLetters |-> game_state.guessed_letters,
        FinalWordState |-> current_state(game_state),
        RemainingGuesses |-> game_state.remaining_guesses]]

endedScore(game_state, language, difficulty) ==
    [value |-> IF game_state.won THEN CORRECT ELSE INCORRECT,
     answer |-> current_state(game_state),
     explanation |->
       [text |-> "Game ended.",
        Word |-> game_state.word,
        Language |-> language,
        Difficulty |-> difficulty,
        Won |-> game_state.won,
        GuessedLetters |-> game_state.guessed_letters,
        FinalWordState |-> current_state(game_state),
        RemainingGuesses |-> game_state.remaining_guesses]]

(* a scorer that takes the early-guess branch whatever game_over is *)
score_EarlyWhenOver(st, completion) ==
    IF "hangman:game_state" \notin DOMAIN st
    THEN [raised |-> "RuntimeError: No game state found", ret |-> <<>>]
    ELSE
    LET game_state == st["hangman:game_state"]
        md == Get(st, "hangman:metadata", <<>>)
        language == Get(md, "language", DEFAULT_LANGUAGE)
        difficulty == Get(md, "difficulty", DEFAULT_DIFFICULTY)
        allow_word_guesses == Get(md, "allow_word_guesses", FALSE)
    IN IF allow_word_guesses
       THEN [raised |-> "none",
             ret |-> earlyScore(game_state, language, difficulty, completion)]
       ELSE IF ~game_state.game_over
       THEN [raised |-> "none", ret |-> incompleteScore(game_state)]
       ELSE [raised |-> "none",
             ret |-> endedScore(game_state, language, difficulty)]

score(st, completion) ==
    IF "hangman:game_state" \notin DOMAIN st
    THEN [raised |-> "RuntimeError: No game state found", ret |-> <<>>]
    ELSE
    LET game_state == st["hangman:game_state"]
        md == Get(st, "hangman:metadata", <<>>)
        language == Get(md, "language", DEFAULT_LANGUAGE)
        difficulty == Get(md, "difficulty", DEFAULT_DIFFICULTY)
        allow_word_guesses == Get(md, "allow_word_guesses", FALSE)
    IN IF allow_word_guesses /\ ~game_state.game_over
       THEN [raised |-> "none",
             ret |-> earlyScore(game_state, language, difficulty, completion)]
       ELSE IF ~game_state.game_over
       THEN [raised |-> "none", ret |-> incompleteScore(game_state)]
       ELSE [raised |-> "none",
             ret |-> endedScore(game_state, language, difficulty)]

(* the final submissions the agent may make (state.output.completion) *)
Completions ==
    {<<"G", "G">>, Get(metadata, "word", <<>>), lower(Get(metadata, "word", <<>>))}

(* ---- the episode ---- *)
Init ==
    /\ metadata \in Metadatas
    /\ store = <<>>
    /\ pc = "setup"
    /\ lastOp = "none"
    /\ lastArg = <<>>
    /\ lastRaised = "none"
    /\ lastReturn = <<>>
    /\ pre = <<>>

(* setup=game_initialiser() runs once, before the agent loop *)
Solve ==
    /\ pc = "setup"
    /\ LET r == solve(store, metadata) IN
       /\ store' = r.store
       /\ pc' = IF r.raised = "none" THEN "play" ELSE "failed"
       /\ lastRaised' = r.raised
    /\ lastOp' = "solve"
    /\ lastArg' = <<>>
    /\ lastReturn' = <<>>
    /\ pre' = store
    /\ UNCHANGED metadata

(* the agent calls the hangman_guess tool *)
Execute ==
    /\ pc \in {"play", "failed"}
    /\ \E letter \in Letters :
         LET r == execute(store, letter) IN
         /\ store' = r.store
         /\ lastRaised' = r.raised
         /\ lastReturn' = r.ret
         /\ lastArg' = letter
    /\ lastOp' = "execute"
    /\ pre' = store
    /\ UNCHANGED <<metadata, pc>>

(* GameState.guess called on the episode's instance directly *)
GuessCall ==
    /\ pc = "play"
    /\ \E letter \in Letters :
         LET r == guess(store["hangman:game_state"], letter) IN
         /\ store' = [store EXCEPT !["hangman:game_state"] = r.state]
         /\ lastRaised' = r.raised
         /\ lastReturn' = IF r.raised = "none" THEN r.state ELSE <<>>
         /\ lastArg' = letter
    /\ lastOp' = "guess"
    /\ pre' = store
    /\ UNCHANGED <<metadata, pc>>

(* the agent loop has ended; scorer=game_scorer() runs on the store *)
Score ==
    /\ pc \in {"play", "failed"}
    /\ \E completion \in Completions :
         LET r == score(store, completion) IN
         /\ lastRaised' = r.raised
         /\ lastReturn' = r.ret
         /\ lastArg' = completion
    /\ lastOp' = "score"
    /\ pc' = "scored"
    /\ pre' = store
    /\ UNCHANGED <<metadata, store>>

Next == Solve \/ Execute \/ GuessCall \/ Score

Spec == Init /\ [][Next]_vars

(* ---- vocabulary of the properties ---- *)
HasGame == "hangman:game_state" \in DOMAIN store
game == store["hangman:game_state"]
HadGame == "hangman:game_state" \in DOMAIN pre
preGame == pre["hangman:game_state"]
allowWordGuesses == store["hangman:metadata"].allow_word_guesses

(* the last step was a guess, by GameState.guess or by the tool, on a game *)
Guessed == lastOp \in {"guess", "execute"} /\ HadGame
(* the last step was a run of the scorer on a game *)
Scored == lastOp = "score" /\ HasGame

(* the argument is exactly one alphabetic character *)
OneAlphabetic(letter) == Len(letter) = 1 /\ isalpha(letter)
(* the argument passes the validation of guess, which tests its lowercase form *)
Accepted(letter) == validLetter(lower(letter))

(* C1 as stated: a guess whose letter is not exactly one alphabetic
   character fails with InvalidGuess (ValueError) in every game state,
   a game that is over included *)
C1_InvalidAlwaysFails ==
    (Guessed /\ ~OneAlphabetic(lastArg)) => lastRaised = "ValueError"

(* C1 amended: such a guess fails with InvalidGuess whenever the game is
   not over; on a game that is over the call returns without validating
   the letter and raises nothing *)
C1_InvalidFailsUnlessOver ==
    /\ (Guessed /\ ~OneAlphabetic(lastArg) /\ ~preGame.game_over)
          => lastRaised = "ValueError"
    /\ (Guessed /\ preGame.game_over) => lastRaised = "none"

C1_Witness ==
    /\ Guessed /\ ~OneAlphabetic(lastArg) /\ ~preGame.game_over
    /\ lastRaised = "ValueError"
    /\ Len(preGame.guessed_letters) > 0

(* C2: once game_over is true every step leaves word, guessed_letters,
   remaining_guesses, game_over and won unchanged, so game_over never goes
   back to false *)
C2_OverIsFrozen ==
    [][(HasGame /\ game.game_over) => (HasGame' /\ game' = game)]_vars

C2_Witness ==
    /\ Guessed /\ preGame.game_over
    /\ Accepted(lastArg) /\ ~In(lower(lastArg)[1], preGame.guessed_letters)
    /\ game = preGame

(* C3: for every single letter L of either case, guess(L) applied twice
   yields the state guess(L) applied once yields, and a guess of a letter
   already in guessed_letters changes nothing *)
C3_GuessIdempotent ==
    /\ HasGame => \A L \in Letters : OneAlphabetic(L) =>
          LET once == guess(game, L).state
          IN guess(once, L).state = once
    /\ (Guessed /\ Accepted(lastArg)
          /\ In(lower(lastArg)[1], preGame.guessed_letters)) => game = preGame

C3_Witness ==
    /\ Guessed /\ ~preGame.game_over /\ lastArg = <<"A">>
    /\ In("a", preGame.guessed_letters)
    /\ lastRaised = "none" /\ game = preGame

(* C4: won is true exactly when game_over is true and every letter of the
   (non-empty) word is in guessed_letters *)
C4_WonIffOverAndComplete ==
    (HasGame /\ game.word # <<>>)
       => (game.won <=> (game.game_over /\ AllGuessed(game)))

C4_Witness ==
    /\ Guessed /\ ~preGame.game_over
    /\ game.word # <<>> /\ game.won /\ game.game_over /\ AllGuessed(game)
    /\ game.remaining_guesses > 0

(* C5: a guess that completes the word and leaves remaining_guesses at or
   below 0 ends the game as a win, and a game that is won stays won *)
C5_WinBeforeLoss ==
    /\ [](( Guessed /\ ~preGame.game_over /\ AllGuessed(game)
            /\ game.remaining_guesses <= 0 ) => (game.game_over /\ game.won))
    /\ [][(HasGame /\ game.won) => (game'.won /\ game'.game_over)]_vars

C5_Witness ==
    /\ Guessed /\ ~preGame.game_over /\ ~AllGuessed(preGame)
    /\ AllGuessed(game) /\ game.remaining_guesses <= 0
    /\ game.game_over /\ game.won

(* C6: remaining_guesses never increases, and a guess lowers it by exactly 1
   exactly when the game is not over, the letter passes validation, was not
   guessed before and does not occur in word; otherwise it is unchanged *)
C6_RemainingGuesses ==
    /\ [](Guessed =>
           LET d == preGame.remaining_guesses - game.remaining_guesses
               charged == /\ ~preGame.game_over
                          /\ Accepted(lastArg)
                          /\ ~In(lower(lastArg)[1], preGame.guessed_letters)
                          /\ ~In(lower(lastArg)[1], preGame.word)
           IN d = (IF charged THEN 1 ELSE 0))
    /\ [][HasGame => game'.remaining_guesses <= game.remaining_guesses]_vars

C6_Witness ==
    /\ Guessed /\ ~preGame.game_over /\ Accepted(lastArg)
    /\ ~In(lower(lastArg)[1], preGame.word)
    /\ game.remaining_guesses = preGame.remaining_guesses - 1
    /\ ~game.game_over

(* C7 as stated: the scorer on a game that is not over gives INCORRECT and
   an explanation noting that the game did not complete *)
C7_NotOverIsIncorrect ==
    (Scored /\ ~game.game_over)
       => /\ lastReturn.value = INCORRECT
          /\ lastReturn.explanation.text = "The game did not complete."

(* C7 amended: with allow_word_guesses disabled, the scorer on a game that
   is not over gives INCORRECT and an explanation noting that the game did
   not complete *)
C7_NotOverIsIncorrectInStandardMode ==
    (Scored /\ ~game.game_over /\ ~allowWordGuesses)
       => /\ lastReturn.value = INCORRECT
          /\ lastReturn.explanation.text = "The game did not complete."

C7_Witness ==
    /\ Scored /\ ~game.game_over /\ ~allowWordGuesses
    /\ Len(game.guessed_letters) > 0
    /\ lastReturn.value = INCORRECT

(* C8: with allow_word_guesses enabled and the game not over, the score is
   CORRECT exactly when the final submission equals word, and the scorer
   takes the early-guess branch *)
C8_EarlyGuess ==
    (Scored /\ allowWordGuesses /\ ~game.game_over)
       => /\ lastReturn.value = (IF lastArg = game.word THEN CORRECT ELSE INCORRECT)
          /\ lastReturn.explanation.text = "Early guess."
          /\ lastReturn.answer = lastArg

C8_Witness ==
    /\ Scored /\ allowWordGuesses /\ ~game.game_over
    /\ lastArg = game.word /\ lastReturn.value = CORRECT
    /\ Len(game.guessed_letters) > 0

(* C9: on a game that is over the score is CORRECT exactly when won, in both
   modes; with allow_word_guesses disabled the score is CORRECT exactly when
   every letter of word has been guessed *)
C9_OverScoresWon ==
    /\ (Scored /\ game.game_over)
          => lastReturn.value = (IF game.won THEN CORRECT ELSE INCORRECT)
    /\ (Scored /\ ~allowWordGuesses)
          => (lastReturn.value = CORRECT <=> AllGuessed(game))

C9_Witness ==
    /\ Scored /\ game.game_over /\ ~game.won /\ allowWordGuesses
    /\ lastReturn.value = INCORRECT

(* C10: in every branch of the scorer the explanation contains the word,
   the language, the difficulty, the guessed letters, the final display and
   the remaining guesses *)
C10_ExplanationComplete ==
    Scored =>
       LET e == lastReturn.explanation
           md == store["hangman:metadata"]
       IN /\ {"Word", "Language", "Difficulty", "GuessedLetters",
              "FinalWordState", "RemainingGuesses"} \subseteq DOMAIN e
          /\ e.Word = game.word
          /\ e.Language = md.language
          /\ e.Difficulty = md.difficulty
          /\ e.GuessedLetters = game.guessed_letters
          /\ e.FinalWordState = current_state(game)
          /\ e.RemainingGuesses = game.remaining_guesses

(* C11: the final submission changes the score value only on the early-guess
   path: with allow_word_guesses disabled, or on a game that is over, any two
   submissions get the same value from the same store *)
C11_SubmissionIgnored ==
    (HasGame /\ (~allowWordGuesses \/ game.game_over))
       => /\ \A c1, c2 \in Completions :
               score(store, c1).ret.value = score(store, c2).ret.value
          /\ Scored => lastReturn.value = score(store, <<"G", "G">>).ret.value

C11_Witness ==
    /\ Scored /\ (~allowWordGuesses \/ game.game_over)
    /\ lastArg = game.word
    /\ lastReturn.value = INCORRECT

(* C12: the tool invoked on a store without a GameState fails with
   UninitializedGame for every letter, returns no snapshot and leaves the
   store without a GameState *)
C12_NoGameNoGuess ==
    (lastOp = "execute" /\ ~HadGame)
       => /\ lastRaised = "RuntimeError: No game in progress"
          /\ DOMAIN lastReturn = {}
          /\ ~HasGame

C12_Witness ==
    /\ lastOp = "execute" /\ ~HadGame /\ lastArg = <<"a">>
    /\ lastRaised = "RuntimeError: No game in progress"
    /\ ~HasGame

(* C13: a guess that fails with InvalidGuess leaves the GameState as it was,
   the game goes on, and the guess after it yields what it would have
   yielded from the state before the invalid guess *)
C13_InvalidGuessIsLocal ==
    /\ []((Guessed /\ lastRaised = "ValueError")
            => (HasGame /\ game = preGame /\ pc = "play"))
    /\ [][(Guessed /\ lastRaised = "ValueError" /\ lastOp' \in {"guess", "execute"})
            => game' = guess(preGame, lastArg').state]_vars

C13_Witness ==
    /\ Guessed /\ lastRaised = "ValueError"
    /\ ~game.game_over /\ Len(game.guessed_letters) > 0
    /\ game = preGame

(* the display without its separators: one position per letter of word *)
Positions(display) == SelectSeq(display, LAMBDA c : c # "sp")

(* C14: the display has len(word) positions; position i shows word[i] when
   word[i] is in guessed_letters and the placeholder otherwise, in the
   display the tool returns as well *)
C14_Display ==
    HasGame =>
       LET shown == Positions(current_state(game))
       IN /\ Len(shown) = Len(game.word)
          /\ \A i \in 1..Len(game.word) :
                shown[i] = (IF In(game.word[i], game.guessed_letters)
                            THEN game.word[i] ELSE "us")
          /\ (lastOp = "execute" /\ lastRaised = "none")
                => Positions(lastReturn.current_state) = shown

C14_Witness ==
    /\ lastOp = "execute" /\ lastRaised = "none" /\ HasGame
    /\ game.word = <<"a", "a">>
    /\ In("z", game.guessed_letters)
    /\ Positions(lastReturn.current_state) = <<"a", "a">>

(* the letters that are their own lowercase form, and the lowercase form of
   the others *)
LowercaseLetters == {"a", "g", "i", "t", "y", "z"}
LowercaseOf == ("A" :> "a") @@ ("G" :> "g") @@ ("T" :> "t")
AsLowercase(c) == IF c \in DOMAIN LowercaseOf THEN LowercaseOf[c] ELSE c

(* C15: guessed_letters holds distinct lowercase letters, and a guess leaves
   it unchanged or appends the lowercase form of its letter at the end *)
C15_GuessedLetters ==
    /\ HasGame =>
         LET g == game.guessed_letters
         IN /\ \A i \in 1..Len(g) : g[i] \in LowercaseLetters
            /\ \A i, j \in 1..Len(g) : g[i] = g[j] => i = j
    /\ Guessed =>
         \/ game.guessed_letters = preGame.guessed_letters
         \/ /\ Len(lastArg) = 1
            /\ ~In(AsLowercase(lastArg[1]), preGame.guessed_letters)
            /\ game.guessed_letters
                 = Append(preGame.guessed_letters, AsLowercase(lastArg[1]))

C15_Witness ==
    /\ Guessed /\ lastArg = <<"A">>
    /\ Len(preGame.guessed_letters) > 0
    /\ game.guessed_letters = Append(preGame.guessed_letters, "a")

(* the max_guesses the game was started with *)
maxGuesses == Get(metadata, "max_guesses", DEFAULT_MAX_GUESSES)

(* C16 as stated: for any integer max_guesses, remaining_guesses <= 0
   implies game_over in every reachable state *)
C16_ZeroMeansOver ==
    HasGame => (game.remaining_guesses <= 0 => game.game_over)

(* C16 amended: for max_guesses >= 1, remaining_guesses <= 0 implies
   game_over in every reachable state, so no guess is applied to a game whose
   counter has reached 0 *)
C16_ZeroMeansOverForPositiveBudget ==
    /\ [](( HasGame /\ maxGuesses >= 1 )
            => (game.remaining_guesses <= 0 => game.game_over))
    /\ [][( HasGame /\ maxGuesses >= 1 /\ game.remaining_guesses <= 0 )
            => game' = game]_vars

C16_Witness ==
    /\ Guessed /\ maxGuesses >= 1
    /\ preGame.remaining_guesses = 1 /\ ~preGame.game_over
    /\ game.remaining_guesses = 0 /\ game.game_over /\ ~game.won

(* strictly ascending in code point order, hence without duplicates *)
Ascending(q) == \A i, j \in 1..Len(q) : i < j => CodePoints[q[i]] < CodePoints[q[j]]

(* C17: a successful call of the tool returns the projection of the
   GameState after the call; incorrect_guesses is the set of guessed letters
   not in word, without duplicates, in ascending order *)
C17_Snapshot ==
    (lastOp = "execute" /\ lastRaised = "none")
       => /\ HasGame
          /\ lastReturn.current_state = current_state(game)
          /\ lastReturn.remaining_guesses = game.remaining_guesses
          /\ lastReturn.game_over = game.game_over
          /\ lastReturn.won = game.won
          /\ LET q == lastReturn.incorrect_guesses
             IN /\ {q[i] : i \in 1..Len(q)}
                     = {c \in {game.guessed_letters[i] :
                                 i \in 1..Len(game.guessed_letters)} :
                          ~In(c, game.word)}
                /\ Ascending(q)

C17_Witness ==
    /\ lastOp = "execute" /\ lastRaised = "none" /\ HasGame
    /\ lastReturn.incorrect_guesses = <<"y", "z">>
    /\ \E i, j \in 1..Len(game.guessed_letters) :
          i < j /\ game.guessed_letters[i] = "z" /\ game.guessed_letters[j] = "y"
    /\ In("a", game.guessed_letters)

(* the episode has no word: the key is missing or its value is empty *)
NoWord == Get(metadata, "word", <<>>) = <<>>

(* C18: without a word the initialiser fails with MissingWord and publishes
   nothing; a later call of the tool fails with UninitializedGame and a later
   run of the scorer fails with MissingGameState *)
C18_MissingWord ==
    (NoWord /\ pc # "setup")
       => /\ DOMAIN store = {}
          /\ lastOp = "solve" => lastRaised = "RuntimeError: No word provided"
          /\ lastOp = "execute" => lastRaised = "RuntimeError: No game in progress"
          /\ lastOp = "score" => lastRaised = "RuntimeError: No game state found"
          /\ DOMAIN lastReturn = {}

C18_Witness ==
    /\ NoWord /\ "word" \in DOMAIN metadata
    /\ pc = "scored" /\ lastOp = "score"
    /\ lastRaised = "RuntimeError: No game state found"
    /\ pre = store /\ DOMAIN store = {}

(* C19: remaining_guesses = max_guesses - the number of distinct guessed
   letters not in word; for max_guesses >= 1 it stays within 0..max_guesses *)
C19_Counter ==
    HasGame =>
       LET wrong == {c \in {game.guessed_letters[i] :
                              i \in 1..Len(game.guessed_letters)} :
                       ~In(c, game.word)}
       IN /\ game.remaining_guesses = maxGuesses - Cardinality(wrong)
          /\ maxGuesses >= 1
               => (0 <= game.remaining_guesses /\ game.remaining_guesses <= maxGuesses)

C19_Witness ==
    /\ Guessed /\ maxGuesses = 2
    /\ game.remaining_guesses = 0
    /\ Len(game.guessed_letters) = 3

(* the letters a guess can add, and the distinct letters of word *)
GuessableLetters == {lower(L)[1] : L \in {M \in Letters : Accepted(M)}}
WordLetters == {game.word[i] : i \in 1..Len(game.word)}

(* C20: for max_guesses >= 1 a game in progress has had fewer than
   (distinct letters of word) + max_guesses - 1 new valid letters, so it is
   over after at most that many; it ends won exactly when the word is
   complete, and it is over once every guessable letter has been guessed *)
C20_Terminates ==
    (HasGame /\ maxGuesses >= 1 /\ WordLetters \subseteq GuessableLetters)
       => /\ ~game.game_over
               => Len(game.guessed_letters) < Cardinality(WordLetters) + maxGuesses - 1
          /\ Len(game.guessed_letters) <= Cardinality(WordLetters) + maxGuesses - 1
          /\ game.game_over => (game.won <=> AllGuessed(game))
          /\ game.game_over => (~game.won <=> game.remaining_guesses <= 0)
          /\ (\A c \in GuessableLetters : In(c, game.guessed_letters))
               => game.game_over

C20_Witness ==
    /\ Guessed /\ maxGuesses >= 1 /\ ~preGame.game_over
    /\ game.game_over
    /\ Cardinality(WordLetters) = 2
    /\ Len(game.guessed_letters) = Cardinality(WordLetters) + maxGuesses - 1

====
